---------------------------- MODULE Spec2Model ----------------------------
(***************************************************************************)
(* A model of the chess-vision trainer of src/src/machines/gameMachine.ts: *)
(* the XState machine gameMachine (states idle, playing.startingRound,     *)
(* playing.playingRound.{waitingForResponse,hit,falseAlarm}, gameOver),    *)
(* its context, its tick actor, and the pure functions it calls            *)
(* (getReachablePositions, isReachable, generatePositionsForRound,         *)
(* shuffleArray, calculateAccuracyScore).                                  *)
(*                                                                         *)
(* Representation.  A string is the sequence of its UTF-16 code units, so  *)
(* the square "d4" is <<100, 52>> and "" is <<>>.  An optional field that  *)
(* is undefined is <<>> (squares), "undefined" (userResponse, outcome) or  *)
(* <<>> against <<n>> (accuracyScore).  A value of Math.random() is the    *)
(* numerator k of k/64, 0 <= k < 64: the resolution that lets              *)
(* getRandomSquare select each of the 64 squares.  The accuracy score is   *)
(* held in hundredths (8000 is 80.00).                                     *)
(***************************************************************************)
EXTENDS Integers, Sequences, FiniteSets, TLC

VARIABLES
    state,        \* the machine's state value (its active leaf state)
    context,      \* GameContext
    tickActors,   \* number of running tickActor intervals
    blocked,      \* the event loop is inside a retry loop that cannot end
    lastEvent,    \* the event most recently delivered to the machine
    responses,    \* userResponse events sent so far
    config,       \* NUMBER_OF_ROUNDS and TRIALS_PER_ROUND of the build
    sessionRounds,\* entries of startingRound since the last start in idle
    gen,          \* one call of generatePositionsForRound, step by step
    geom          \* one call of getReachablePositions / isReachable

vars == <<state, context, tickActors, blocked, lastEvent, responses, config,
          sessionRounds, gen, geom>>

---------------------------------------------------------------------------
(* Bounds of the model. *)

\* userResponse events sent in one behaviour
MaxResponses == 2

\* start is sent only while fewer than MaxRound rounds have been generated
MaxRound == 5

\* Math.random() takes NumRandom evenly spaced values in the generator runs
NumRandom == 3

---------------------------------------------------------------------------
(* Program constants. *)

NUMBER_OF_ROUNDS == 4

TRIALS_PER_ROUND == 5

\* "abcdefgh" and "12345678" as code units
files == <<97, 98, 99, 100, 101, 102, 103, 104>>

ranks == <<49, 50, 51, 52, 53, 54, 55, 56>>

Pieces == {"knight", "bishop"}

Undefined == "undefined"

Range(s) == {s[k] : k \in DOMAIN s}

\* Object.keys(squareColors): insertion order of generateSquareColors,
\* files outer, ranks inner: a1, a2, ..., a8, b1, ..., h8
squares ==
    [k \in 1..(Len(files) * Len(ranks)) |->
        <<files[((k - 1) \div Len(ranks)) + 1], ranks[((k - 1) % Len(ranks)) + 1]>>]

Squares == Range(squares)

\* the denominator of the values of Math.random()
RandomDen == Len(squares)

RandomValues == 0..(RandomDen - 1)

\* Math.floor(Math.random() * n), for Math.random() = r / RandomDen
RandomIndex(r, n) == (r * n) \div RandomDen

getRandomSquare(r) == squares[RandomIndex(r, Len(squares)) + 1]

getRandomArrayElement(array, r) == array[RandomIndex(r, Len(array)) + 1]

---------------------------------------------------------------------------
(* Geometry: getReachablePositions and isReachable. *)

knightMoves ==
    << <<-2, -1>>, <<-2, 1>>, <<-1, -2>>, <<-1, 2>>,
       <<1, -2>>, <<1, 2>>, <<2, -1>>, <<2, 1>> >>

bishopMoves == << <<-1, -1>>, <<-1, 1>>, <<1, -1>>, <<1, 1>> >>

\* newFile >= "a" && newFile <= "h" && newRank >= "1" && newRank <= "8",
\* on one-character strings: a comparison of code units
OnBoard(newFile, newRank) ==
    /\ newFile >= files[1]
    /\ newFile <= files[Len(files)]
    /\ newRank >= ranks[1]
    /\ newRank <= ranks[Len(ranks)]

\* the knight branch: the for loop over knightMoves from move number k on
RECURSIVE KnightLoop(_, _)
KnightLoop(position, k) ==
    IF k > Len(knightMoves) THEN <<>>
    ELSE LET newFile == position[1] + knightMoves[k][1]
             newRank == position[2] + knightMoves[k][2]
         IN  (IF OnBoard(newFile, newRank) THEN << <<newFile, newRank>> >> ELSE <<>>)
             \o KnightLoop(position, k + 1)

\* the bishop branch's while loop for one direction, at the given offsets
RECURSIVE BishopSlide(_, _, _, _)
BishopSlide(position, move, fileOffset, rankOffset) ==
    LET newFile == position[1] + fileOffset
        newRank == position[2] + rankOffset
    IN  IF OnBoard(newFile, newRank)
        THEN << <<newFile, newRank>> >>
             \o BishopSlide(position, move, fileOffset + move[1], rankOffset + move[2])
        ELSE <<>>

RECURSIVE BishopLoop(_, _)
BishopLoop(position, k) ==
    IF k > Len(bishopMoves) THEN <<>>
    ELSE BishopSlide(position, bishopMoves[k], bishopMoves[k][1], bishopMoves[k][2])
         \o BishopLoop(position, k + 1)

\* a knight that also keeps the moves that leave the board by the rank
KnightLoopNoRankCheck(position) ==
    SelectSeq([k \in 1..Len(knightMoves) |->
                  <<position[1] + knightMoves[k][1], position[2] + knightMoves[k][2]>>],
              LAMBDA p : p[1] >= files[1] /\ p[1] <= files[Len(files)])

\* getReachablePositions with the knight branch missing its rank check
getReachablePositionsMutant(piece, position) ==
    IF piece = "knight" THEN KnightLoopNoRankCheck(position)
    ELSE BishopLoop(position, 1)

getReachablePositions(piece, position) ==
    IF piece = "knight" THEN KnightLoop(position, 1)
    ELSE IF piece = "bishop" THEN BishopLoop(position, 1)
    ELSE <<>>

\* reachablePositions.includes(end)
isReachable(piece, start, end) ==
    end \in Range(getReachablePositions(piece, start))

---------------------------------------------------------------------------
(* generatePositionsForRound and shuffleArray, one Math.random() at a time. *)
(* gen.pc is the call of Math.random() the function is about to make:      *)
(* "ratio" (line 388), "draw" (lines 396/399 for a reachable position,     *)
(* 403/406 for any square: the first draw of iteration i or a retry),      *)
(* "shuffle" (line 496), or "done" once the function has returned.         *)

GenInit(piece, position, roundLength) ==
    [pc |-> "ratio",
     piece |-> piece,
     position |-> position,
     roundLength |-> roundLength,
     reachablePositions |-> getReachablePositions(piece, position),
     targetReachableCount |-> 0,
     i |-> 0,
     selectedPositions |-> <<>>,
     shuffledArray |-> <<>>]

\* Math.floor(roundLength * (Math.random() > 0.5 ? 0.6 : 0.4))
TargetReachableCount(roundLength, r) ==
    (roundLength * (IF 2 * r > RandomDen THEN 6 ELSE 4)) \div 10

\* the for loop's test at index i: another iteration, or on to
\* shuffleArray(selectedPositions), whose loop runs from length - 1 down to 1
GenLoopTest(g, i, selectedPositions) ==
    IF i < g.roundLength
    THEN [g EXCEPT !.pc = "draw", !.i = i, !.selectedPositions = selectedPositions]
    ELSE [g EXCEPT !.pc = IF Len(selectedPositions) - 1 > 0 THEN "shuffle" ELSE "done",
                   !.i = Len(selectedPositions) - 1,
                   !.selectedPositions = selectedPositions,
                   !.shuffledArray = selectedPositions]

\* the position iteration i draws with the random value r
GenCandidate(g, r) ==
    IF g.i < g.targetReachableCount
    THEN getRandomArrayElement(g.reachablePositions, r)
    ELSE getRandomSquare(r)

\* a draw that pushes the position without looking for a duplicate
GenDrawNoRetry(g, r) ==
    GenLoopTest(g, g.i + 1, Append(g.selectedPositions, GenCandidate(g, r)))

\* one draw of iteration i: a duplicate leaves the while loop running
GenDraw(g, r) ==
    IF GenCandidate(g, r) \in Range(g.selectedPositions)
    THEN g
    ELSE GenLoopTest(g, g.i + 1, Append(g.selectedPositions, GenCandidate(g, r)))

\* one iteration of shuffleArray's loop: swap the elements at i and j
GenShuffle(g, r) ==
    LET j == RandomIndex(r, g.i + 1)
        a == g.shuffledArray
    IN  [g EXCEPT !.shuffledArray = [a EXCEPT ![g.i + 1] = a[j + 1], ![j + 1] = a[g.i + 1]],
                  !.i = g.i - 1,
                  !.pc = IF g.i - 1 > 0 THEN "shuffle" ELSE "done"]

GenStep(g, r) ==
    CASE g.pc = "ratio" ->
            GenLoopTest([g EXCEPT !.targetReachableCount =
                                      TargetReachableCount(g.roundLength, r)],
                        0, <<>>)
      [] g.pc = "draw" -> GenDraw(g, r)
      [] g.pc = "shuffle" -> GenShuffle(g, r)
      [] OTHER -> g

\* the while loop of iteration i can never end: every position it can draw
\* is already selected
GenStuck(g) ==
    /\ g.pc = "draw"
    /\ \A r \in RandomValues : GenCandidate(g, r) \in Range(g.selectedPositions)

\* the call run on the random values of tape, as far as the tape reaches
RECURSIVE GenRun(_, _)
GenRun(g, tape) ==
    IF g.pc = "done" \/ tape = <<>> \/ GenStuck(g) THEN g
    ELSE GenRun(GenStep(g, Head(tape)), Tail(tape))

\* the return value of a finished call
GenResult(g) ==
    [positions |-> g.shuffledArray, positiveSampleCount |-> g.targetReachableCount]

---------------------------------------------------------------------------
(* The actions of the machine (setup({actions})), as functions of context. *)

UndefinedSquare == <<>>

\* the context of createMachine({context}); accuracyScore is not set
InitialContext(trialsPerRound) ==
    [currentSquare |-> UndefinedSquare,
     score |-> 0,
     voiceEnabled |-> TRUE,
     countdown |-> 3,
     positionsForRound |-> <<>>,
     guessesRemainingInRound |-> trialsPerRound,
     piecePositionForRound |-> <<>>,
     currentGuess |-> Undefined,
     incorrectCount |-> 0,
     currentRound |-> 0,
     roundData |-> <<>>,
     accuracyScore |-> <<>>]

\* a roundData that keeps the round written and drops the others
PutRoundOnly(roundData, key, round) == [k \in {key} |-> round]

\* {...roundData, [key]: round}
PutRound(roundData, key, round) ==
    [k \in (DOMAIN roundData) \cup {key} |-> IF k = key THEN round ELSE roundData[k]]

\* array[index] of JavaScript, index counted from 0
At(array, index) == array[index + 1]

initialiseNextRound(ctx, piecePositionForRound, positions) ==
    [ctx EXCEPT
        !.piecePositionForRound = piecePositionForRound,
        !.guessesRemainingInRound = config.TRIALS_PER_ROUND,
        !.positionsForRound = positions,
        !.currentRound = ctx.currentRound + 1,
        !.roundData =
            PutRound(ctx.roundData, ctx.currentRound + 1,
                     [trials |->
                          [k \in DOMAIN positions |->
                              [stimulus |-> positions[k],
                               isTarget |-> isReachable("knight", piecePositionForRound,
                                                        positions[k]),
                               userResponse |-> Undefined,
                               outcome |-> Undefined]],
                      piecePositionForRound |-> piecePositionForRound])]

decrementGuessesRemainingInRound(ctx) ==
    [ctx EXCEPT !.guessesRemainingInRound = ctx.guessesRemainingInRound - 1]

\* the index TRIALS_PER_ROUND - context.guessesRemainingInRound
TrialIndex(ctx) == config.TRIALS_PER_ROUND - ctx.guessesRemainingInRound

\* a setupNextTrial that leaves the current square as it is
setupNextTrialStale(ctx) == ctx

setupNextTrial(ctx) ==
    [ctx EXCEPT !.currentSquare =
        IF TrialIndex(ctx) + 1 \in DOMAIN ctx.positionsForRound
        THEN At(ctx.positionsForRound, TrialIndex(ctx))
        ELSE UndefinedSquare]

clearCurrentGuess(ctx) == [ctx EXCEPT !.currentGuess = Undefined]

saveUserResponse(ctx, userResponse) ==
    LET currentRoundData == ctx.roundData[ctx.currentRound]
        currentTrial == At(currentRoundData.trials, TrialIndex(ctx))
    IN  [ctx EXCEPT !.roundData =
            PutRound(ctx.roundData, ctx.currentRound,
                     [currentRoundData EXCEPT !.trials =
                         Append(currentRoundData.trials,
                                [currentTrial EXCEPT !.userResponse = userResponse])])]

\* a classifier that takes every answered trial for a hit
OutcomeAnsweredIsHit(isTarget, userResponse) ==
    IF userResponse = "match" THEN "hit"
    ELSE IF ~isTarget THEN "correctRejection"
    ELSE "miss"

\* the if chain of evaluateGuess
Outcome(isTarget, userResponse) ==
    IF isTarget /\ userResponse = "match" THEN "hit"
    ELSE IF ~isTarget /\ userResponse = "match" THEN "falseAlarm"
    ELSE IF ~isTarget /\ userResponse = Undefined THEN "correctRejection"
    ELSE "miss"

evaluateGuess(ctx) ==
    LET currentRoundData == ctx.roundData[ctx.currentRound]
        currentTrial == At(currentRoundData.trials, TrialIndex(ctx))
        isTarget == isReachable("knight", currentRoundData.piecePositionForRound,
                                currentTrial.stimulus)
        outcome == Outcome(isTarget, currentTrial.userResponse)
    IN  [ctx EXCEPT !.roundData =
            PutRound(ctx.roundData, ctx.currentRound,
                     [currentRoundData EXCEPT !.trials =
                         Append(currentRoundData.trials,
                                [currentTrial EXCEPT !.outcome = outcome])])]

\* the records the two loops of calculateAccuracyScore visit: the trials of
\* Object.values(roundData), rounds by ascending key
RECURSIVE AllTrials(_, _)
AllTrials(roundData, keys) ==
    IF keys = {} THEN <<>>
    ELSE LET k == CHOOSE x \in keys : \A y \in keys : x <= y
         IN  roundData[k].trials \o AllTrials(roundData, keys \ {k})

\* Math.round(x) for x = num / den >= 0: the nearest integer, halves up
MathRound(num, den) == (2 * num + den) \div (2 * den)

\* Math.round((correctResponses / totalTrials) * 10000) / 100, in hundredths
calculateAccuracyScore(roundData) ==
    LET trials == AllTrials(roundData, DOMAIN roundData)
        totalTrials == Len(trials)
        correctResponses ==
            Cardinality({n \in DOMAIN trials :
                            trials[n].outcome = "hit" \/ trials[n].outcome = "correctRejection"})
    IN  IF totalTrials = 0 THEN 0 ELSE MathRound(correctResponses * 10000, totalTrials)

\* the guard isHit
isHit(ctx) ==
    /\ ctx.currentSquare # UndefinedSquare
    /\ isReachable("knight", ctx.piecePositionForRound, ctx.currentSquare)

---------------------------------------------------------------------------
(* The machine.  state is the active leaf: "idle", "startingRound",        *)
(* "waitingForResponse", "hit", "falseAlarm" (the three children of        *)
(* playing.playingRound) or "gameOver".  The state countdown has no        *)
(* transition into it and is left out.  announceSquare and                 *)
(* announcePiecePosition only speak and change nothing modelled here.      *)

PlayingRound == {"waitingForResponse", "hit", "falseAlarm"}

\* The random draws explored for a round: the value getRandomSquare() uses
\* for the round's origin (line 104), then the values
\* generatePositionsForRound consumes.  Each is a numerator over RandomDen.
\* The first draws the origin d4 and the ratio 0.6; the second the corner a1
\* and the ratio 0.6, three reachable positions where a1 has two.
RandomTapes ==
    << <<27, 40, 0, 8, 32, 1, 2, 63, 0, 63, 20>>,
       <<0, 40, 0, 63, 63, 63, 63, 63, 63, 63, 63>> >>

Tapes == Range(RandomTapes)

\* the round lengths of the builds modelled: TRIALS_PER_ROUND, and 2
RoundLengths == {2, TRIALS_PER_ROUND}

\* what initialiseNextRound computes from the draws of each tape, lines
\* 104-109: the origin and the call of generatePositionsForRound
GeneratedRounds ==
    {[tape |-> tape,
      roundLength |-> roundLength,
      piecePositionForRound |-> getRandomSquare(Head(tape)),
      g |-> GenRun(GenInit("knight", getRandomSquare(Head(tape)), roundLength),
                   Tail(tape))] : tape \in Tapes, roundLength \in RoundLengths}

GeneratedRound(tape, roundLength) ==
    CHOOSE round \in GeneratedRounds :
        round.tape = tape /\ round.roundLength = roundLength

\* an entry of startingRound that leaves playingRound's tickActor running
EnterStartingRoundLeaking(tape) ==
    LET piecePositionForRound ==
            GeneratedRound(tape, config.TRIALS_PER_ROUND).piecePositionForRound
        g == GeneratedRound(tape, config.TRIALS_PER_ROUND).g
    IN  /\ g.pc = "done"
        /\ state' = "startingRound"
        /\ context' = initialiseNextRound(context, piecePositionForRound,
                                          GenResult(g).positions)
        /\ UNCHANGED <<tickActors, blocked>>

\* entry of playing.startingRound (initialiseNextRound) with the draws of
\* tape.  A call of generatePositionsForRound that cannot return leaves the
\* transition unfinished and the event loop blocked.
EnterStartingRound(tape) ==
    LET piecePositionForRound ==
            GeneratedRound(tape, config.TRIALS_PER_ROUND).piecePositionForRound
        g == GeneratedRound(tape, config.TRIALS_PER_ROUND).g
    IN  IF GenStuck(g)
        THEN /\ blocked' = TRUE
             /\ UNCHANGED <<state, context, tickActors>>
        ELSE /\ g.pc = "done"
             /\ state' = "startingRound"
             /\ context' = initialiseNextRound(context, piecePositionForRound,
                                               GenResult(g).positions)
             /\ tickActors' = IF state \in PlayingRound THEN tickActors - 1 ELSE tickActors
             /\ UNCHANGED blocked

\* an event no transition of the active states handles
Ignore == UNCHANGED <<state, context, tickActors, blocked>>

\* idle.on.start: "playing"
Start ==
    /\ ~blocked
    /\ lastEvent' = "start"
    /\ IF state = "idle"
       THEN /\ context.currentRound < MaxRound
            /\ \E tape \in Tapes : EnterStartingRound(tape)
       ELSE Ignore
    /\ sessionRounds' = IF state = "idle" /\ state' = "startingRound" THEN 1 ELSE sessionRounds
    /\ UNCHANGED <<responses, config, gen, geom>>

\* a voice.toggle that also clears the current square
VoiceToggleClearing ==
    /\ ~blocked
    /\ lastEvent' = "voice.toggle"
    /\ IF state = "idle"
       THEN /\ context' = [context EXCEPT !.voiceEnabled = ~context.voiceEnabled,
                                          !.currentSquare = UndefinedSquare]
            /\ UNCHANGED <<state, tickActors, blocked>>
       ELSE Ignore
    /\ UNCHANGED <<responses, config, sessionRounds, gen, geom>>

\* idle.on["voice.toggle"]
VoiceToggle ==
    /\ ~blocked
    /\ lastEvent' = "voice.toggle"
    /\ IF state = "idle"
       THEN /\ context' = [context EXCEPT !.voiceEnabled = ~context.voiceEnabled]
            /\ UNCHANGED <<state, tickActors, blocked>>
       ELSE Ignore
    /\ UNCHANGED <<responses, config, sessionRounds, gen, geom>>

\* startingRound.after[3000]: "playingRound"; entry setupNextTrial, the
\* tickActor is invoked, and the initial child is waitingForResponse
AfterDelay ==
    /\ ~blocked
    /\ state = "startingRound"
    /\ lastEvent' = "after"
    /\ state' = "waitingForResponse"
    /\ context' = setupNextTrial(context)
    /\ tickActors' = tickActors + 1
    /\ UNCHANGED <<blocked, responses, config, sessionRounds, gen, geom>>

\* a tick sent by a running tickActor; playingRound.on.tick handles it
Tick ==
    /\ ~blocked
    /\ tickActors > 0
    /\ lastEvent' = "tick"
    /\ IF state \notin PlayingRound
       THEN Ignore
       ELSE IF context.guessesRemainingInRound > 1
       THEN /\ context' = clearCurrentGuess(setupNextTrial(evaluateGuess(
                              decrementGuessesRemainingInRound(context))))
            /\ state' = "waitingForResponse"
            /\ UNCHANGED <<tickActors, blocked>>
       ELSE IF context.currentRound >= config.NUMBER_OF_ROUNDS
       THEN /\ state' = "gameOver"
            /\ context' = [context EXCEPT !.accuracyScore =
                               <<calculateAccuracyScore(context.roundData)>>]
            /\ tickActors' = tickActors - 1
            /\ UNCHANGED blocked
       ELSE \E tape \in Tapes : EnterStartingRound(tape)
    /\ sessionRounds' = IF state \in PlayingRound /\ state' = "startingRound"
                        THEN sessionRounds + 1 ELSE sessionRounds
    /\ UNCHANGED <<responses, config, gen, geom>>

\* a userResponse that every child state of playingRound handles
UserResponseInAnyChild ==
    /\ ~blocked
    /\ responses < MaxResponses
    /\ responses' = responses + 1
    /\ lastEvent' = "userResponse"
    /\ IF state \in PlayingRound
       THEN /\ state' = IF isHit(context) THEN "hit" ELSE "falseAlarm"
            /\ context' = evaluateGuess(saveUserResponse(context, "match"))
            /\ UNCHANGED <<tickActors, blocked>>
       ELSE Ignore
    /\ UNCHANGED <<config, sessionRounds, gen, geom>>

\* waitingForResponse.on.userResponse; the event carries userResponse "match"
UserResponse ==
    /\ ~blocked
    /\ responses < MaxResponses
    /\ responses' = responses + 1
    /\ lastEvent' = "userResponse"
    /\ IF state = "waitingForResponse"
       THEN /\ state' = IF isHit(context) THEN "hit" ELSE "falseAlarm"
            /\ context' = evaluateGuess(saveUserResponse(context, "match"))
            /\ UNCHANGED <<tickActors, blocked>>
       ELSE Ignore
    /\ UNCHANGED <<config, sessionRounds, gen, geom>>

\* a restart that is handled in every state
RestartAnywhere ==
    /\ ~blocked
    /\ lastEvent' = "restart"
    /\ state' = "idle"
    /\ tickActors' = 0
    /\ UNCHANGED <<context, blocked, responses, config, sessionRounds, gen, geom>>

\* gameOver.on.restart: "idle"
Restart ==
    /\ ~blocked
    /\ lastEvent' = "restart"
    /\ IF state = "gameOver"
       THEN /\ state' = "idle"
            /\ UNCHANGED <<context, tickActors, blocked>>
       ELSE Ignore
    /\ UNCHANGED <<responses, config, sessionRounds, gen, geom>>

\* no call of the generator or of the geometry functions is being followed
NoCall == [pc |-> "none"]

MachineInit(numberOfRounds, trialsPerRound) ==
    /\ state = "idle"
    /\ context = InitialContext(trialsPerRound)
    /\ tickActors = 0
    /\ blocked = FALSE
    /\ lastEvent = "none"
    /\ responses = 0
    /\ config = [NUMBER_OF_ROUNDS |-> numberOfRounds, TRIALS_PER_ROUND |-> trialsPerRound]
    /\ sessionRounds = 0

Init ==
    /\ MachineInit(NUMBER_OF_ROUNDS, TRIALS_PER_ROUND)
    /\ gen = NoCall
    /\ geom = NoCall

Next ==
    \/ Start
    \/ VoiceToggle
    \/ AfterDelay
    \/ Tick
    \/ UserResponse
    \/ Restart

Spec == Init /\ [][Next]_vars

\* the machine with a clock that runs: the delay of startingRound elapses
\* and the setInterval of a running tickActor keeps firing
SpecLive == Init /\ [][Next]_vars /\ WF_vars(AfterDelay) /\ WF_vars(Tick)

\* the machine built with one round of two trials
InitScenario ==
    /\ MachineInit(1, 2)
    /\ gen = NoCall
    /\ geom = NoCall

SpecScenario == InitScenario /\ [][Next]_vars

---------------------------------------------------------------------------
(* Calls of generatePositionsForRound as initialiseNextRound makes them:    *)
(* the knight, any origin, TRIALS_PER_ROUND positions, every Math.random() *)
(* among NumRandom values.                                                 *)

SampledRandomValues == {k * (RandomDen \div NumRandom) : k \in 0..(NumRandom - 1)}

InitGen ==
    /\ MachineInit(NUMBER_OF_ROUNDS, TRIALS_PER_ROUND)
    /\ gen \in {GenInit("knight", position, TRIALS_PER_ROUND) : position \in Squares}
    /\ geom = NoCall

StepRatio ==
    /\ gen.pc = "ratio"
    /\ \E r \in SampledRandomValues : gen' = GenStep(gen, r)
    /\ UNCHANGED <<state, context, tickActors, blocked, lastEvent, responses, config,
                 sessionRounds, geom>>

StepDraw ==
    /\ gen.pc = "draw"
    /\ \E r \in SampledRandomValues : gen' = GenStep(gen, r)
    /\ UNCHANGED <<state, context, tickActors, blocked, lastEvent, responses, config,
                 sessionRounds, geom>>

StepShuffle ==
    /\ gen.pc = "shuffle"
    /\ \E r \in SampledRandomValues : gen' = GenStep(gen, r)
    /\ UNCHANGED <<state, context, tickActors, blocked, lastEvent, responses, config,
                 sessionRounds, geom>>

NextGen == StepRatio \/ StepDraw \/ StepShuffle

SpecGen == InitGen /\ [][NextGen]_vars

---------------------------------------------------------------------------
(* Calls of getReachablePositions and isReachable on their own. *)

InitGeom ==
    /\ MachineInit(NUMBER_OF_ROUNDS, TRIALS_PER_ROUND)
    /\ gen = NoCall
    /\ geom = NoCall

CallGetReachablePositions ==
    /\ geom.pc = "none"
    /\ \E piece \in Pieces, position \in Squares :
          geom' = [pc |-> "getReachablePositions", piece |-> piece, position |-> position,
                   result |-> getReachablePositions(piece, position)]
    /\ UNCHANGED <<state, context, tickActors, blocked, lastEvent, responses, config,
                 sessionRounds, gen>>

CallIsReachable ==
    /\ geom.pc = "none"
    /\ \E piece \in Pieces, start \in Squares, end \in Squares :
          geom' = [pc |-> "isReachable", piece |-> piece, start |-> start, end |-> end,
                   result |-> isReachable(piece, start, end)]
    /\ UNCHANGED <<state, context, tickActors, blocked, lastEvent, responses, config,
                 sessionRounds, gen>>

\* the caller has used the result
Return ==
    /\ geom.pc # "none"
    /\ geom' = NoCall
    /\ UNCHANGED <<state, context, tickActors, blocked, lastEvent, responses, config,
                 sessionRounds, gen>>

NextGeom == CallGetReachablePositions \/ CallIsReachable \/ Return

SpecGeom == InitGeom /\ [][NextGeom]_vars

---------------------------------------------------------------------------
(* Calls of the evaluateGuess assigner on their own: the context holds one *)
(* round whose trial at the index evaluateGuess reads is any stimulus for  *)
(* any origin, answered or not.                                            *)

ClassifyContext(origin, stimulus, userResponse) ==
    [InitialContext(TRIALS_PER_ROUND) EXCEPT
        !.piecePositionForRound = origin,
        !.currentRound = 1,
        !.positionsForRound = <<stimulus>>,
        !.currentSquare = stimulus,
        !.roundData =
            PutRound(<<>>, 1,
                     [trials |-> << [stimulus |-> stimulus,
                                     isTarget |-> isReachable("knight", origin, stimulus),
                                     userResponse |-> userResponse,
                                     outcome |-> Undefined] >>,
                      piecePositionForRound |-> origin])]

InitClassify ==
    /\ state = "waitingForResponse"
    /\ context \in {ClassifyContext(origin, stimulus, userResponse) :
                        origin \in Squares, stimulus \in Squares,
                        userResponse \in {Undefined, "match"}}
    /\ tickActors = 1
    /\ blocked = FALSE
    /\ lastEvent = "none"
    /\ responses = 0
    /\ config = [NUMBER_OF_ROUNDS |-> NUMBER_OF_ROUNDS, TRIALS_PER_ROUND |-> TRIALS_PER_ROUND]
    /\ sessionRounds = 1
    /\ gen = NoCall
    /\ geom = NoCall

Classify ==
    /\ Len(context.roundData[1].trials) = 1
    /\ context' = evaluateGuess(context)
    /\ UNCHANGED <<state, tickActors, blocked, lastEvent, responses, config,
                   sessionRounds, gen, geom>>

NextClassify == Classify

SpecClassify == InitClassify /\ [][NextClassify]_vars

---------------------------------------------------------------------------
(* Properties. *)

Abs(x) == IF x < 0 THEN -x ELSE x

NoDuplicates(seq) == \A a, b \in DOMAIN seq : a # b => seq[a] # seq[b]

\* file a-h, rank 1-8
ValidSquares == {<<f, r>> : f \in Range(files), r \in Range(ranks)}

\* the records of round k that carry an outcome for the trial showing stimulus
ClassifiedRecords(k, stimulus) ==
    {n \in DOMAIN context.roundData[k].trials :
        /\ context.roundData[k].trials[n].stimulus = stimulus
        /\ context.roundData[k].trials[n].outcome # Undefined}

\* the stimuli of round k, in the order of presentation
Stimuli(k) ==
    [n \in 1..config.TRIALS_PER_ROUND |-> context.roundData[k].trials[n].stimulus]

\* the controller has left playingRound for round k
RoundLeft(k) == k < context.currentRound \/ state \in {"gameOver", "idle"}

\* C1: no trial is classified twice: in every reachable state each stimulus
\* of each round has at most one record with an outcome, so a userResponse
\* after a tick's classification of the trial adds none.
C1_NoTrialClassifiedTwice ==
    \A k \in DOMAIN context.roundData :
        \A n \in 1..config.TRIALS_PER_ROUND :
            Cardinality(ClassifiedRecords(k, Stimuli(k)[n])) <= 1

\* C2: once the controller has left playingRound for a round, every trial of
\* that round, the first and the last included, has an outcome recorded.
C2_NoTrialUnclassified ==
    \A k \in DOMAIN context.roundData :
        RoundLeft(k) =>
            \A n \in 1..config.TRIALS_PER_ROUND : ClassifiedRecords(k, Stimuli(k)[n]) # {}

\* the record the last action on the current round appended
LastRecord ==
    LET trials == context.roundData[context.currentRound].trials
    IN  trials[Len(trials)]

\* C3: after an accepted userResponse "match" the record of the current trial
\* carries the response and the outcome named by the tag state entered: hit
\* in state hit, falseAlarm in state falseAlarm.
C3_ResponseClassifiedAsTagState ==
    state \in {"hit", "falseAlarm"} =>
        /\ LastRecord.stimulus = context.currentSquare
        /\ LastRecord.userResponse = "match"
        /\ LastRecord.outcome = state

\* one round of two trials has been played: the first stimulus reachable and
\* answered with the only userResponse sent, the second not reachable
C4_ScenarioPlayed ==
    /\ state = "gameOver"
    /\ context.currentRound = 1
    /\ responses = 1
    /\ context.roundData[1].trials[1].isTarget
    /\ ~context.roundData[1].trials[2].isTarget
    /\ \E n \in DOMAIN context.roundData[1].trials :
          /\ context.roundData[1].trials[n].stimulus = Stimuli(1)[1]
          /\ context.roundData[1].trials[n].userResponse = "match"

\* C4: the session of one round of two trials, reachable stimulus answered
\* and unreachable stimulus left unanswered, ends in gameOver with
\* accuracyScore = 100.00.
C4_EndToEndAccuracy == C4_ScenarioPlayed => context.accuracyScore = <<10000>>

\* 100 * (hit or correctRejection) / (records with an outcome), two decimals
ScoreOverClassified ==
    LET trials == AllTrials(context.roundData, DOMAIN context.roundData)
        classified == {n \in DOMAIN trials : trials[n].outcome # Undefined}
        correct == {n \in classified : trials[n].outcome \in {"hit", "correctRejection"}}
    IN  IF classified = {} THEN 0
        ELSE (2 * 10000 * Cardinality(correct) + Cardinality(classified))
                 \div (2 * Cardinality(classified))

\* C5: in gameOver the accuracy score is the share of hit and
\* correctRejection among the classified trials, as a percentage rounded to
\* two decimals; records without an outcome do not count.
C5_AccuracyOverClassified ==
    state = "gameOver" => context.accuracyScore = <<ScoreOverClassified>>

\* C6: restart in gameOver leads to idle with the context reset to its
\* initial values.
C6_RestartResetsContext ==
    (state = "idle" /\ lastEvent = "restart") =>
        /\ context.currentRound = 0
        /\ DOMAIN context.roundData = {}
        /\ context.guessesRemainingInRound = config.TRIALS_PER_ROUND
        /\ context.currentSquare = UndefinedSquare
        /\ context.accuracyScore = <<>>
        /\ context.score = 0
        /\ context.incorrectCount = 0

\* the event delivered by this step has no transition in the current state
IllegalEventDelivered ==
    \/ lastEvent' = "start" /\ state # "idle"
    \/ lastEvent' = "userResponse" /\ state # "waitingForResponse"
    \/ lastEvent' = "restart" /\ state # "gameOver"
    \/ lastEvent' = "voice.toggle" /\ state # "idle"

\* C7: an event among start, userResponse, restart and voice.toggle that the
\* current state does not handle changes neither state nor context.
C7_IllegalEventIgnored ==
    [][IllegalEventDelivered => (state' = state /\ context' = context)]_vars

\* a userResponse was dropped in gameOver
C7_Witness == state = "gameOver" /\ lastEvent = "userResponse"

\* C8: a round returned by generatePositionsForRound has roundLength
\* elements, no square twice, and only valid squares; while it is built,
\* selectedPositions holds valid squares and none twice.
C8_RoundWellFormed ==
    /\ NoDuplicates(gen.selectedPositions)
    /\ Range(gen.selectedPositions) \subseteq ValidSquares
    /\ gen.pc = "done" =>
          /\ Len(GenResult(gen).positions) = gen.roundLength
          /\ NoDuplicates(GenResult(gen).positions)
          /\ Range(GenResult(gen).positions) \subseteq ValidSquares

\* a knight's round with three reachable positions drawn, returned reordered
C8_Witness ==
    /\ gen.pc = "done"
    /\ gen.piece = "knight"
    /\ gen.targetReachableCount = 3
    /\ Len(gen.shuffledArray) = TRIALS_PER_ROUND
    /\ gen.shuffledArray # gen.selectedPositions

\* C9: round generation never hangs: the retry loop is never running with
\* every position it can draw already selected.
C9_GenerationNeverHangs == ~GenStuck(gen)

KnightReference(origin) ==
    {t \in ValidSquares : {Abs(t[1] - origin[1]), Abs(t[2] - origin[2])} = {1, 2}}

BishopReference(origin) ==
    {t \in ValidSquares : Abs(t[1] - origin[1]) = Abs(t[2] - origin[2]) /\ t # origin}

Reference(piece, origin) ==
    IF piece = "knight" THEN KnightReference(origin) ELSE BishopReference(origin)

\* C10: getReachablePositions returns the reference set without duplicates
\* (knight: the (1,2)/(2,1) offsets on the board, d4 -> b3 b5 c2 c6 e2 e6 f3
\* f5; bishop: the diagonals through the origin, a1 -> b2 ... h8), and
\* isReachable(piece, o, t) is true exactly when t is in that set.
C10_ReachableIsReference ==
    /\ geom.pc = "getReachablePositions" =>
          /\ NoDuplicates(geom.result)
          /\ Range(geom.result) = Reference(geom.piece, geom.position)
          /\ (geom.piece = "knight" /\ geom.position = <<100, 52>>) =>
                Range(geom.result) =
                    {<<98, 51>>, <<98, 53>>, <<99, 50>>, <<99, 54>>,
                     <<101, 50>>, <<101, 54>>, <<102, 51>>, <<102, 53>>}
          /\ (geom.piece = "bishop" /\ geom.position = <<97, 49>>) =>
                Range(geom.result) =
                    {<<98, 50>>, <<99, 51>>, <<100, 52>>, <<101, 53>>,
                     <<102, 54>>, <<103, 55>>, <<104, 56>>}
    /\ geom.pc = "isReachable" =>
          geom.result = (geom.end \in Reference(geom.piece, geom.start))

\* isReachable("bishop", "a1", "h8") has answered true
C10_Witness ==
    /\ geom.pc = "isReachable"
    /\ geom.piece = "bishop"
    /\ geom.start = <<97, 49>>
    /\ geom.end = <<104, 56>>
    /\ geom.result = TRUE

\* C11: the outcome evaluateGuess appends for the trial record it reads
\* follows the truth table: (target, match) -> hit, (no target, match) ->
\* falseAlarm, (no target, no response) -> correctRejection, (target, no
\* response) -> miss.
C11_ClassifierTruthTable ==
    LET trials == context.roundData[1].trials
        read == trials[1]
        outcome == trials[Len(trials)].outcome
    IN  Len(trials) = 2 =>
            /\ (read.isTarget /\ read.userResponse = "match") => outcome = "hit"
            /\ (~read.isTarget /\ read.userResponse = "match") => outcome = "falseAlarm"
            /\ (~read.isTarget /\ read.userResponse = Undefined) =>
                   outcome = "correctRejection"
            /\ (read.isTarget /\ read.userResponse = Undefined) => outcome = "miss"
            /\ trials[2].stimulus = read.stimulus

\* an answered stimulus that is no target has been classified falseAlarm
C11_Witness ==
    /\ Len(context.roundData[1].trials) = 2
    /\ context.roundData[1].trials[1].userResponse = "match"
    /\ ~context.roundData[1].trials[1].isTarget
    /\ context.roundData[1].trials[2].outcome = "falseAlarm"

\* C12: a tickActor runs exactly while the machine is in playingRound, and
\* at most one: started on entry, kept by the ticks that return to
\* waitingForResponse, stopped on the way to startingRound and gameOver; so
\* no tick is delivered in idle, startingRound or gameOver.
C12_TickSourceOnlyInPlayingRound ==
    /\ [](tickActors = IF state \in PlayingRound THEN 1 ELSE 0)
    /\ [][lastEvent' = "tick" => state \in PlayingRound]_vars

\* the second round is starting and the first round's tickActor is stopped
C12_Witness ==
    /\ state = "startingRound"
    /\ context.currentRound = 2
    /\ lastEvent = "tick"
    /\ tickActors = 0

\* C13: in idle voice.toggle flips voiceEnabled, keeps the machine in idle
\* and changes no other field of the context; in every other state it
\* changes neither state nor context.
C13_VoiceToggleFrame ==
    [][lastEvent' = "voice.toggle" =>
          /\ state' = state
          /\ context' = IF state = "idle"
                        THEN [context EXCEPT !.voiceEnabled = ~context.voiceEnabled]
                        ELSE context]_vars

\* the voice has been switched off in idle after a played session
C13_Witness ==
    /\ state = "idle"
    /\ lastEvent = "voice.toggle"
    /\ ~context.voiceEnabled
    /\ context.currentSquare # UndefinedSquare

\* C14: a tick with trials remaining classifies the previous trial, the one
\* whose stimulus was displayed until this tick, and gives no outcome to the
\* trial whose stimulus it makes the current square.
C14_TickClassifiesPreviousTrial ==
    (lastEvent = "tick" /\ state = "waitingForResponse") =>
        /\ LastRecord.outcome # Undefined
        /\ LastRecord.stimulus = At(context.positionsForRound, TrialIndex(context) - 1)
        /\ LastRecord.stimulus # context.currentSquare

\* C15: every session, the ones started after a restart included, plays
\* exactly NUMBER_OF_ROUNDS rounds: gameOver is entered with startingRound
\* entered NUMBER_OF_ROUNDS times since the start, on the tick taken with the
\* last trial of the round displayed.
C15_SessionPlaysAllRounds ==
    state = "gameOver" =>
        /\ sessionRounds = config.NUMBER_OF_ROUNDS
        /\ context.guessesRemainingInRound = 1

\* a session is under way: start has been taken in idle and gameOver is not
\* reached
SessionUnderWay == blocked \/ state = "startingRound" \/ state \in PlayingRound

\* C16: with the delay and the ticks firing, a session that has started
\* reaches gameOver with accuracyScore set, whatever is drawn and answered.
C16_SessionReachesGameOver ==
    SessionUnderWay ~> (state = "gameOver" /\ context.accuracyScore # <<>>)

\* the pairs <<origin, stimulus>> with isReachable("knight", origin, stimulus)
KnightPairs ==
    UNION {{<<origin, stimulus>> :
               stimulus \in {t \in Squares : isReachable("knight", origin, t)}} :
           origin \in Squares}

\* the records of round k agree with the round's origin, and the round being
\* played is the last one recorded
RoundDataConsistent ==
    /\ DOMAIN context.roundData = 1..context.currentRound
    /\ context.currentRound >= 1 =>
          context.roundData[context.currentRound].piecePositionForRound
              = context.piecePositionForRound
    /\ \A k \in DOMAIN context.roundData :
          LET round == context.roundData[k]
          IN  \A n \in DOMAIN round.trials :
                  LET trial == round.trials[n]
                  IN  trial.isTarget
                          = (<<round.piecePositionForRound, trial.stimulus>> \in KnightPairs)

\* a step keeps every round recorded, its origin, and the stimulus and the
\* isTarget flag of every record it holds
RoundDataKept ==
    \/ context'.roundData = context.roundData
    \/ \A k \in DOMAIN context.roundData :
          /\ k \in DOMAIN context'.roundData
          /\ LET old == context.roundData[k]
                 new == context'.roundData[k]
             IN  \/ new = old
                 \/ /\ new.piecePositionForRound = old.piecePositionForRound
                    /\ \A n \in DOMAIN old.trials :
                          /\ n \in DOMAIN new.trials
                          /\ new.trials[n].stimulus = old.trials[n].stimulus
                          /\ new.trials[n].isTarget = old.trials[n].isTarget

\* C17: round data is immutable: the round keys are 1..currentRound, every
\* record's isTarget is isReachable(knight, origin of its round, its
\* stimulus), and no step changes the origin, the stimuli or the isTarget
\* flags of a round already recorded.
C17_RoundDataImmutable == []RoundDataConsistent /\ [][RoundDataKept]_vars

\* in the second round, a response has added records to a round whose first
\* round is still recorded
C17_Witness ==
    /\ context.currentRound = 2
    /\ lastEvent = "userResponse"
    /\ state \in {"hit", "falseAlarm"}
    /\ Len(context.roundData[2].trials) > config.TRIALS_PER_ROUND
    /\ Len(context.roundData[1].trials) > config.TRIALS_PER_ROUND

\* in playingRound the current square is the stimulus at the index
\* TRIALS_PER_ROUND - guessesRemainingInRound
CurrentSquareInSequence ==
    state \in PlayingRound =>
        /\ context.guessesRemainingInRound >= 1
        /\ context.guessesRemainingInRound <= config.TRIALS_PER_ROUND
        /\ context.currentSquare = At(context.positionsForRound, TrialIndex(context))

\* entry to playingRound shows index 0; a tick with trials remaining moves
\* the index on by one
IndexAdvancesByOne ==
    /\ (state = "startingRound" /\ state' \in PlayingRound) => TrialIndex(context') = 0
    /\ (lastEvent' = "tick" /\ state \in PlayingRound
            /\ context.guessesRemainingInRound > 1) =>
          /\ state' = "waitingForResponse"
          /\ TrialIndex(context') = TrialIndex(context) + 1

\* C18: within a round the stimuli are presented in sequence order, each
\* once: in playingRound 1 <= guessesRemainingInRound <= TRIALS_PER_ROUND and
\* currentSquare = positionsForRound[TRIALS_PER_ROUND -
\* guessesRemainingInRound]; entry shows index 0 and each tick with trials
\* remaining advances the index by one.
C18_StimuliInOrder == []CurrentSquareInSequence /\ [][IndexAdvancesByOne]_vars

\* the fourth tick of a round has displayed the last stimulus
C18_Witness ==
    /\ state = "waitingForResponse"
    /\ lastEvent = "tick"
    /\ context.guessesRemainingInRound = 1
    /\ context.currentSquare = At(context.positionsForRound, config.TRIALS_PER_ROUND - 1)

\* the stimuli of a returned round that the piece reaches from the origin
ReachableStimuli ==
    {n \in DOMAIN gen.shuffledArray :
        isReachable(gen.piece, gen.position, gen.shuffledArray[n])}

\* C19: a generated round of TRIALS_PER_ROUND stimuli holds 2 or 3 stimuli
\* the knight reaches from the round's origin.
C19_TwoOrThreeTargets ==
    gen.pc = "done" => Cardinality(ReachableStimuli) \in {2, 3}

\* the machine is in hit or falseAlarm: a response was accepted for the
\* stimulus displayed
ResponseAccepted == state \in {"hit", "falseAlarm"}

\* C20: at most one response is accepted per displayed stimulus: in hit and
\* falseAlarm a further userResponse changes neither state nor context, only
\* a tick leaves these states, and the machine is in hit only with a current
\* square the knight reaches from piecePositionForRound and in falseAlarm
\* only with one it does not reach.
C20_OneResponsePerStimulus ==
    /\ [](ResponseAccepted =>
            ((state = "hit") = isReachable("knight", context.piecePositionForRound,
                                           context.currentSquare)))
    /\ [][(ResponseAccepted /\ lastEvent' = "userResponse") =>
             (state' = state /\ context' = context)]_vars
    /\ [][(ResponseAccepted /\ state' # state) => lastEvent' = "tick"]_vars

\* a second userResponse on the first stimulus of the session was dropped
C20_Witness ==
    /\ state = "hit"
    /\ lastEvent = "userResponse"
    /\ responses = 2
    /\ context.currentRound = 1
    /\ context.guessesRemainingInRound = config.TRIALS_PER_ROUND
    /\ Len(context.roundData[1].trials) = config.TRIALS_PER_ROUND + 2

=============================================================================
